---- MODULE Spec2Model ----
(***************************************************************************)
(* Model of the M/M/1 queue simulation engine (MM1Queue), of its          *)
(* parameter controller (UtilizationOptimizer) and of the event loop of    *)
(* main() of src/main.py.                                                  *)
(* Simulated time is counted in integer ticks.  A float('inf') time is the *)
(* value Inf, larger than every time the bounded model can reach.  An      *)
(* Optional field that is None holds NoTime, a value below every time the  *)
(* model can reach (under a negative rate the clock runs backwards); the   *)
(* Optional current_customer is a sequence of length 0 (None) or 1 (the    *)
(* customer in service).                                                   *)
(* Rates and utilizations are fixed-point numbers counted in thousandths:  *)
(* the rate 1.0 is RateUnit, the controller's step 0.01 is 10.            *)
(***************************************************************************)
EXTENDS Integers, Sequences, FiniteSets

\* ---------------------------------------------------------------- bounds
MaxSteps == 5
MaxExp == 2
MaxRate == 2

\* ---------------------------------------------------- program constants
Inf == 1000000
NoTime == 0 - Inf - 1
CompletedCap == 1000
CompletedKeep == 500
RecentMaxlen == 5
RateUnit == 1000

VARIABLES
    arrival_rate, service_rate,
    queue, server_busy, current_customer,
    current_time, next_arrival_time, next_departure_time,
    total_customers, customers_served, next_customer_id,
    total_wait_time, total_service_time, total_time_in_system,
    queue_length_history, time_history, utilization_history,
    server_busy_time, last_update_time,
    time_weighted_customers, last_measurement_time,
    completed_customers, recent_journeys,
    steps,
    raised,
    target_utilization, optimization_enabled, strategy,
    demonstration_phase, ticks,
    stats,
    oplog,
    running, step_mode, continuous_mode

vars == <<arrival_rate, service_rate, queue, server_busy, current_customer,
          current_time, next_arrival_time, next_departure_time,
          total_customers, customers_served, next_customer_id,
          total_wait_time, total_service_time, total_time_in_system,
          queue_length_history, time_history, utilization_history,
          server_busy_time, last_update_time,
          time_weighted_customers, last_measurement_time,
          completed_customers, recent_journeys, steps, raised,
          target_utilization, optimization_enabled, strategy,
          demonstration_phase, ticks, stats, oplog,
          running, step_mode, continuous_mode>>

rateVars == <<arrival_rate, service_rate>>

engineVars == <<queue, server_busy, current_customer,
          current_time, next_arrival_time, next_departure_time,
          total_customers, customers_served, next_customer_id,
          total_wait_time, total_service_time, total_time_in_system,
          queue_length_history, time_history, utilization_history,
          server_busy_time, last_update_time,
          time_weighted_customers, last_measurement_time,
          completed_customers, recent_journeys, steps>>

\* the fields of UtilizationOptimizer, and the count of optimize_step calls
optVars == <<target_utilization, optimization_enabled, strategy,
             demonstration_phase, ticks>>

\* the mode flags of SimulatorUI
uiVars == <<running, step_mode, continuous_mode>>

\* the positive rates a caller may construct the engine with or set later
Rates == {RateUnit * r : r \in 1..MaxRate}

\* ------------------------------------------------------------- Customer
\* Customer(id=..., arrival_time=..., service_time=0): the two Optional
\* fields default to None.
NewCustomer(id, now) ==
    [id |-> id, arrival_time |-> now, service_time |-> 0,
     start_service_time |-> NoTime, departure_time |-> NoTime]

\* Customer.wait_time
wait_time(c) ==
    IF c.start_service_time = NoTime THEN 0
    ELSE c.start_service_time - c.arrival_time

\* Customer.time_in_system
time_in_system(c) ==
    IF c.departure_time = NoTime THEN 0
    ELSE c.departure_time - c.arrival_time

\* ---------------------------------------------------------- random draws
\* random.expovariate(lambd) is -ln(1 - random()) / lambd.  The sample e of
\* the unit exponential, -ln(1 - random()), is any value >= 0 (random() is
\* in [0, 1), so 0 is possible); the draw is e scaled down by the rate, and
\* has the sign of the rate.  lambd = 0 raises ZeroDivisionError: the
\* callers below test for it before they draw.
UnitExp == 0..MaxExp

Expovariate(lambd, e) ==
    IF lambd > 0 THEN (e * RateUnit) \div lambd
    ELSE 0 - ((e * RateUnit) \div (0 - lambd))

\* ------------------------------------------------------------ scheduling
\* schedule_next_arrival: self.next_arrival_time = current_time + draw
ScheduleNextArrivalNoClock(now, draw) == draw

ScheduleNextArrival(now, draw) == now + draw

\* schedule_next_departure: self.next_departure_time = current_time + draw
ScheduleNextDepartureNoClock(now, draw) == draw

ScheduleNextDeparture(now, draw) == now + draw

\* schedule_next_departure: the fields it writes on the customer
StartService(c, now, draw) ==
    [c EXCEPT !.service_time = draw, !.start_service_time = now]

\* ------------------------------------------------------------ step parts
\* step: "if self.next_arrival_time <= self.next_departure_time"
NextEventIsArrivalStrict(na, nd) == na < nd

NextEventIsArrival(na, nd) == na <= nd

\* step: the time of the event this call processes, the new current_time
EventTime ==
    IF NextEventIsArrival(next_arrival_time, next_departure_time)
    THEN next_arrival_time
    ELSE next_departure_time

\* depart_customer: next_customer = self.queue.popleft()
PopRight(q) == [customer |-> q[Len(q)], rest |-> SubSeq(q, 1, Len(q) - 1)]

PopLeft(q) == [customer |-> Head(q), rest |-> Tail(q)]

\* depart_customer: self.customers_served += 1
ServedTwice(n) == n + 2

ServedAfterDeparture(n) == n + 1

\* depart_customer: completed_customers.append(...) and the trim to the
\* most recent CompletedKeep once the list is longer than CompletedCap
AppendCompletedDropped(log, c) == log

AppendCompletedKeepOldest(log, c) ==
    LET l == Append(log, c)
    IN  IF Len(l) > CompletedCap THEN SubSeq(l, 1, CompletedKeep) ELSE l

AppendCompleted(log, c) ==
    LET l == Append(log, c)
    IN  IF Len(l) > CompletedCap
        THEN SubSeq(l, Len(l) - CompletedKeep + 1, Len(l))
        ELSE l

\* recent_journeys.append(...) on a deque(maxlen=5)
AppendRecentKeepOldest(rj, c) ==
    IF Len(rj) >= RecentMaxlen THEN rj ELSE Append(rj, c)

AppendRecent(rj, c) ==
    LET l == Append(rj, c)
    IN  IF Len(l) > RecentMaxlen THEN Tail(l) ELSE l

\* depart_customer, idle branch: self.next_departure_time = float('inf')
IdleDepartureTimeStale(nd) == nd

IdleDepartureTime(nd) == Inf

\* step: if self.server_busy:
\*           self.server_busy_time += self.current_time - self.last_update_time
BusyTimeSinceZero(busy, total, now, last) ==
    IF busy THEN total + now ELSE total

BusyTimeAfter(busy, total, now, last) ==
    IF busy THEN total + (now - last) ELSE total

\* step: self.time_history.append(self.current_time), before the event is
\* chosen and current_time is advanced to it
TimeSampleAfterEvent(now, event) == event

TimeSample(now, event) == now

\* step: the running-utilization sample server_busy_time / current_time is
\* kept as the pair <<numerator, denominator>>; it is appended only when
\* current_time > 0
RecordUtilizationAlways(hist, busy, now) == Append(hist, <<busy, now>>)

RecordUtilization(hist, busy, now) ==
    IF now > 0 THEN Append(hist, <<busy, now>>) ELSE hist

\* ------------------------------------------------------------------ Init
\* the value of get_statistics() before its first call
NoStats == [called |-> FALSE]

\* MM1Queue.__init__(ar, sr) followed by its schedule_next_arrival() call,
\* which raises ZeroDivisionError for ar = 0
Construct(ar, sr) ==
    /\ arrival_rate = ar
    /\ service_rate = sr
    /\ queue = <<>>
    /\ server_busy = FALSE
    /\ current_customer = <<>>
    /\ current_time = 0
    /\ IF ar = 0
       THEN /\ next_arrival_time = 0
            /\ raised = "ZeroDivisionError"
       ELSE /\ \E e \in UnitExp :
                 next_arrival_time = ScheduleNextArrival(0, Expovariate(ar, e))
            /\ raised = "none"
    /\ next_departure_time = Inf
    /\ total_customers = 0
    /\ customers_served = 0
    /\ next_customer_id = 1
    /\ total_wait_time = 0
    /\ total_service_time = 0
    /\ total_time_in_system = 0
    /\ queue_length_history = <<>>
    /\ time_history = <<>>
    /\ utilization_history = <<>>
    /\ server_busy_time = 0
    /\ last_update_time = 0
    /\ time_weighted_customers = 0
    /\ last_measurement_time = 0
    /\ completed_customers = <<>>
    /\ recent_journeys = <<>>
    /\ steps = 0
    /\ stats = NoStats

\* SimulatorUI.__init__: not running, neither step nor continuous mode
SimulatorUIInit ==
    /\ running = FALSE
    /\ step_mode = FALSE
    /\ continuous_mode = FALSE

\* The caller's record of the controller calls it made: the method, its
\* argument, the value returned, and the strategy and enabled flag it read
\* before the call.  A caller that keeps no record starts with NoLog.
NoLog == [on |-> FALSE, calls |-> <<>>]

EmptyLog == [on |-> TRUE, calls |-> <<>>]

Logged(op, arg, ret) ==
    IF oplog.on
    THEN [oplog EXCEPT !.calls =
             Append(@, [op |-> op, arg |-> arg, ret |-> ret,
                        strategy |-> strategy,
                        enabled |-> optimization_enabled])]
    ELSE oplog

\* UtilizationOptimizer.__init__(queue, target_utilization)
OptimizerInit(target) ==
    /\ target_utilization = target
    /\ optimization_enabled = FALSE
    /\ strategy = "arrival_rate"
    /\ demonstration_phase = 0
    /\ ticks = 0

\* MM1Queue(ar, sr) with positive rates, UtilizationOptimizer(queue)
Init ==
    /\ \E ar \in Rates, sr \in Rates : Construct(ar, sr)
    /\ OptimizerInit(RateUnit)
    /\ oplog = NoLog
    /\ SimulatorUIInit

\* ------------------------------------------------------------------ step
\* step, lines 227-246: integrate, record history, before the event
StepPrelude ==
    LET time_delta == current_time - last_measurement_time
        customers_in_system == Len(queue) + (IF server_busy THEN 1 ELSE 0)
        busy == BusyTimeAfter(server_busy, server_busy_time,
                              current_time, last_update_time)
    IN  /\ time_weighted_customers' =
               time_weighted_customers + customers_in_system * time_delta
        /\ last_measurement_time' = current_time
        /\ server_busy_time' = busy
        /\ queue_length_history' = Append(queue_length_history, Len(queue))
        /\ time_history' =
               Append(time_history, TimeSample(current_time, EventTime))
        /\ utilization_history' =
               RecordUtilization(utilization_history, busy, current_time)
        /\ last_update_time' = current_time
        /\ steps' = steps + 1

\* step() taking the arrival branch: current_time = next_arrival_time, then
\* arrive_customer().  ea, es are the unit-exponential samples behind the
\* inter-arrival draw and the service draw (used only if the server is free).
\* A draw at rate 0 raises ZeroDivisionError and leaves the call half done.
ArrivalBranch(ea, es) ==
    /\ raised = "none"
    /\ NextEventIsArrival(next_arrival_time, next_departure_time)
    /\ StepPrelude
    /\ LET now == next_arrival_time
           customer == NewCustomer(next_customer_id, now)
           serviceFails == ~server_busy /\ service_rate = 0
       IN  /\ current_time' = now
           /\ next_customer_id' = next_customer_id + 1
           /\ total_customers' = total_customers + 1
           /\ IF ~server_busy
              THEN /\ server_busy' = TRUE
                   /\ queue' = queue
                   /\ IF service_rate = 0
                      THEN /\ current_customer' = <<customer>>
                           /\ next_departure_time' = next_departure_time
                      ELSE LET service == Expovariate(service_rate, es)
                           IN  /\ current_customer' =
                                      <<StartService(customer, now, service)>>
                               /\ next_departure_time' =
                                      ScheduleNextDeparture(now, service)
              ELSE /\ queue' = Append(queue, customer)
                   /\ UNCHANGED <<server_busy, current_customer, next_departure_time>>
           /\ IF serviceFails \/ arrival_rate = 0
              THEN /\ next_arrival_time' = next_arrival_time
                   /\ raised' = "ZeroDivisionError"
              ELSE /\ next_arrival_time' =
                          ScheduleNextArrival(now, Expovariate(arrival_rate, ea))
                   /\ raised' = raised
    /\ UNCHANGED <<customers_served, total_wait_time, total_service_time,
                   total_time_in_system, completed_customers, recent_journeys>>

\* a call of step() that takes the arrival branch, made by a caller that
\* does nothing else
ArrivalEvent(ea, es) ==
    /\ ArrivalBranch(ea, es)
    /\ UNCHANGED <<rateVars, optVars, stats, oplog, uiVars>>

\* step() taking the departure branch: current_time = next_departure_time,
\* then depart_customer().  es is the sample behind the service draw of the
\* customer taken from the line, if any.
DepartureBranch(es) ==
    /\ raised = "none"
    /\ ~NextEventIsArrival(next_arrival_time, next_departure_time)
    /\ StepPrelude
    /\ LET now == next_departure_time
       IN  /\ current_time' = now
           /\ IF current_customer # <<>>
              THEN LET done == [current_customer[1] EXCEPT !.departure_time = now]
                   IN  /\ customers_served' = ServedAfterDeparture(customers_served)
                       /\ total_wait_time' = total_wait_time + wait_time(done)
                       /\ total_time_in_system' =
                              total_time_in_system + time_in_system(done)
                       /\ completed_customers' =
                              AppendCompleted(completed_customers, done)
                       /\ recent_journeys' = AppendRecent(recent_journeys, done)
              ELSE UNCHANGED <<customers_served, total_wait_time,
                               total_time_in_system, completed_customers,
                               recent_journeys>>
           /\ IF queue # <<>>
              THEN LET p == PopLeft(queue)
                       \* next_customer.start_service_time = now, then
                       \* schedule_next_departure(next_customer)
                       started == [p.customer EXCEPT !.start_service_time = now]
                   IN  /\ queue' = p.rest
                       /\ server_busy' = server_busy
                       /\ IF service_rate = 0
                          THEN /\ current_customer' = <<started>>
                               /\ next_departure_time' = next_departure_time
                               /\ raised' = "ZeroDivisionError"
                          ELSE LET service == Expovariate(service_rate, es)
                               IN  /\ current_customer' =
                                          <<StartService(started, now, service)>>
                                   /\ next_departure_time' =
                                          ScheduleNextDeparture(now, service)
                                   /\ raised' = raised
              ELSE /\ server_busy' = FALSE
                   /\ current_customer' = <<>>
                   /\ next_departure_time' = IdleDepartureTime(next_departure_time)
                   /\ queue' = queue
                   /\ raised' = raised
    /\ UNCHANGED <<next_arrival_time, total_customers, next_customer_id,
                   total_service_time>>

\* a call of step() that takes the departure branch, made by a caller that
\* does nothing else
DepartureEvent(es) ==
    /\ DepartureBranch(es)
    /\ UNCHANGED <<rateVars, optVars, stats, oplog, uiVars>>

StepArrival(ea, es) ==
    /\ steps < MaxSteps
    /\ ArrivalEvent(ea, es)

StepDeparture(es) ==
    /\ steps < MaxSteps
    /\ DepartureEvent(es)

\* step(): one call, whichever branch it takes
Step ==
    \/ \E ea \in UnitExp, es \in UnitExp : StepArrival(ea, es)
    \/ \E es \in UnitExp : StepDeparture(es)

\* ------------------------------------------------- hot parameter changes
\* a write to arrival_rate that also redraws the pending arrival
SetArrivalRateRescheduling(r) ==
    /\ raised = "none"
    /\ r # arrival_rate
    /\ arrival_rate' = r
    /\ next_arrival_time' = current_time + Expovariate(r, 1) + 1
    /\ UNCHANGED service_rate
    /\ UNCHANGED <<queue, server_busy, current_customer, current_time,
                   next_departure_time, total_customers, customers_served,
                   next_customer_id, total_wait_time, total_service_time,
                   total_time_in_system, queue_length_history, time_history,
                   utilization_history, server_busy_time, last_update_time,
                   time_weighted_customers, last_measurement_time,
                   completed_customers, recent_journeys, steps>>
    /\ UNCHANGED <<raised, optVars, stats, oplog, uiVars>>

\* adjust_arrival_rate: self.queue.arrival_rate = new_rate (new_rate > 0),
\* the direct write any holder of the engine may make between steps
SetArrivalRate(r) ==
    /\ raised = "none"
    /\ r # arrival_rate
    /\ arrival_rate' = r
    /\ UNCHANGED service_rate
    /\ UNCHANGED <<engineVars, raised, optVars, stats, oplog, uiVars>>

\* adjust_service_rate: self.queue.service_rate = new_rate (new_rate > 0)
SetServiceRate(r) ==
    /\ raised = "none"
    /\ r # service_rate
    /\ service_rate' = r
    /\ UNCHANGED arrival_rate
    /\ UNCHANGED <<engineVars, raised, optVars, stats, oplog, uiVars>>

Next ==
    \/ Step
    \/ \E r \in Rates : SetArrivalRate(r)
    \/ \E r \in Rates : SetServiceRate(r)

Spec == Init /\ [][Next]_vars

\* ---------------------------------------------------------- a long run
\* A run long enough for the completed log to be trimmed: the engine is
\* constructed with arrival rate 1.0 and any service rate, and every draw
\* after construction comes from the unit-exponential sample LongSample.
LongSteps == 2004

LongSample == 1

LongInit ==
    /\ \E sr \in Rates : Construct(RateUnit, sr)
    /\ OptimizerInit(RateUnit)
    /\ oplog = NoLog
    /\ SimulatorUIInit

LongStepArrival ==
    /\ steps < LongSteps
    /\ ArrivalEvent(LongSample, LongSample)

LongStepDeparture ==
    /\ steps < LongSteps
    /\ DepartureEvent(LongSample)

LongNext ==
    \/ LongStepArrival
    \/ LongStepDeparture

LongSpec == LongInit /\ [][LongNext]_vars


\* -------------------------------------------------------- get_statistics
\* Quotients of the statistics are kept exact, as pairs <<numerator,
\* denominator>>.
Abs(x) == IF x < 0 THEN 0 - x ELSE x

RECURSIVE SumServiceTime(_)
\* sum(c.service_time for c in self.completed_customers)
SumServiceTime(log) ==
    IF log = <<>> THEN 0
    ELSE IF Len(log) = 1 THEN log[1].service_time
    ELSE LET half == Len(log) \div 2
         IN  SumServiceTime(SubSeq(log, 1, half))
                 + SumServiceTime(SubSeq(log, half + 1, Len(log)))

\* a get_little_law_verification that tests the served count only
LittleLawIgnoringClock ==
    IF customers_served < 10
    THEN [available |-> FALSE]
    ELSE [available |-> TRUE,
          L |-> <<time_weighted_customers, current_time>>,
          lambda |-> <<total_customers, current_time>>,
          W |-> <<total_time_in_system, customers_served>>,
          lambda_times_W |-> <<total_customers * total_time_in_system,
                               current_time * customers_served>>,
          error |-> <<0, 1>>,
          relative_error |-> <<0, 1>>,
          verified |-> TRUE]

\* get_little_law_verification: None below 10 served customers or at time
\* 0, else L, lambda, W, lambda * W, the errors and the verified flag
LittleLaw ==
    IF customers_served < 10 \/ current_time <= 0
    THEN [available |-> FALSE]
    ELSE LET diff == Abs(time_weighted_customers * customers_served
                         - total_customers * total_time_in_system)
             den == current_time * customers_served
             \* error / max(L, 0.001), in lowest common terms of the clock
             rel == IF 1000 * time_weighted_customers >= current_time
                    THEN <<diff, customers_served * time_weighted_customers>>
                    ELSE <<diff * 1000, den>>
         IN  [available |-> TRUE,
              L |-> <<time_weighted_customers, current_time>>,
              lambda |-> <<total_customers, current_time>>,
              W |-> <<total_time_in_system, customers_served>>,
              lambda_times_W |-> <<total_customers * total_time_in_system, den>>,
              error |-> <<diff, den>>,
              relative_error |-> rel,
              verified |-> 5 * rel[1] < rel[2]]

\* get_time_breakdown: None below 5 served customers
TimeBreakdown ==
    IF customers_served < 5
    THEN [available |-> FALSE]
    ELSE LET total_service == SumServiceTime(completed_customers)
             \* x / max(avg_system, 0.001), avg_system = total / served
             Fraction(x) ==
                 IF 1000 * total_time_in_system >= customers_served
                 THEN <<x, total_time_in_system>>
                 ELSE <<1000 * x, customers_served>>
         IN  [available |-> TRUE,
              avg_wait_time |-> <<total_wait_time, customers_served>>,
              avg_service_time |-> <<total_service, customers_served>>,
              avg_time_in_system |-> <<total_time_in_system, customers_served>>,
              wait_fraction |-> Fraction(total_wait_time),
              service_fraction |-> Fraction(total_service)]

\* self.steady_state_threshold = 100
SteadyStateThreshold == 100

\* a get_steady_state_info whose four thresholds are inclusive
SteadyStateInfoInclusive ==
    [customers_served |-> customers_served,
     customers_needed |-> SteadyStateThreshold,
     progress |-> IF customers_served <= SteadyStateThreshold
                  THEN <<customers_served, SteadyStateThreshold>>
                  ELSE <<1, 1>>,
     confidence |-> IF customers_served <= 20 THEN "Very Low"
                    ELSE IF customers_served <= 50 THEN "Low"
                    ELSE IF customers_served <= 100 THEN "Medium"
                    ELSE "High",
     reliability |-> IF customers_served <= 20 THEN "Not reliable"
                     ELSE IF customers_served <= 50 THEN "Use with caution"
                     ELSE IF customers_served <= 100 THEN "Moderately reliable"
                     ELSE "Reliable",
     is_steady_state |-> customers_served > SteadyStateThreshold]

\* get_steady_state_info
SteadyStateInfo ==
    [customers_served |-> customers_served,
     customers_needed |-> SteadyStateThreshold,
     progress |-> IF customers_served < SteadyStateThreshold
                  THEN <<customers_served, SteadyStateThreshold>>
                  ELSE <<1, 1>>,
     confidence |-> IF customers_served < 20 THEN "Very Low"
                    ELSE IF customers_served < 50 THEN "Low"
                    ELSE IF customers_served < 100 THEN "Medium"
                    ELSE "High",
     reliability |-> IF customers_served < 20 THEN "Not reliable"
                     ELSE IF customers_served < 50 THEN "Use with caution"
                     ELSE IF customers_served < 100 THEN "Moderately reliable"
                     ELSE "Reliable",
     is_steady_state |-> customers_served >= SteadyStateThreshold]

\* get_statistics: 'avg_utilization', server_busy_time / current_time,
\* 0.0 when current_time is 0
AvgUtilization ==
    IF current_time > 0 THEN <<server_busy_time, current_time>> ELSE <<0, 1>>

\* get_statistics: the dictionary it returns (rates are positive here; the
\* theoretical queue length of a system with rho >= 1 is float('inf'))
Statistics ==
    LET stable == service_rate > arrival_rate
    IN  [called |-> TRUE,
         queue_length |-> Len(queue),
         server_busy |-> server_busy,
         utilization |-> IF server_busy THEN 1 ELSE 0,
         avg_utilization |-> AvgUtilization,
         total_customers |-> total_customers,
         customers_served |-> customers_served,
         avg_wait_time |-> IF customers_served = 0 THEN <<0, 1>>
                           ELSE <<total_wait_time, customers_served>>,
         current_time |-> current_time,
         theoretical_queue_length |->
             IF stable
             THEN <<arrival_rate * arrival_rate,
                    service_rate * (service_rate - arrival_rate)>>
             ELSE <<Inf, 1>>,
         theoretical_utilization |->
             IF stable THEN <<arrival_rate, service_rate>> ELSE <<1, 1>>,
         little_law |-> LittleLaw,
         time_breakdown |-> TimeBreakdown,
         steady_state |-> SteadyStateInfo,
         recent_journeys |-> recent_journeys]

\* a get_statistics() that also restarts the Little's Law measurement
GetStatisticsRestarting ==
    /\ raised = "none"
    /\ stats' = Statistics
    /\ last_measurement_time' = current_time
    /\ UNCHANGED <<arrival_rate, service_rate, queue, server_busy,
                   current_customer, current_time, next_arrival_time,
                   next_departure_time, total_customers, customers_served,
                   next_customer_id, total_wait_time, total_service_time,
                   total_time_in_system, queue_length_history, time_history,
                   utilization_history, server_busy_time, last_update_time,
                   time_weighted_customers, completed_customers,
                   recent_journeys, steps, raised, optVars, oplog, uiVars>>

\* a call of get_statistics(): stats is the value returned
GetStatistics ==
    /\ raised = "none"
    /\ stats' = Statistics
    /\ UNCHANGED <<rateVars, engineVars, raised, optVars, oplog, uiVars>>

\* ------------------------------------------- a run polled for statistics
\* An engine with any of the rates, stepped StatSteps times on draws of the
\* sample LongSample, with get_statistics() called at any point between
\* the steps.  While the clock still stands at 0 with an arrival due, the
\* caller may write another arrival rate: a burst of customers at time 0
\* can then be served at time 0.
StatSteps == 24

StatStepArrival ==
    /\ steps < StatSteps
    /\ ArrivalEvent(LongSample, LongSample)

StatStepDeparture ==
    /\ steps < StatSteps
    /\ DepartureEvent(LongSample)

StatSetArrivalRate(r) ==
    /\ current_time = 0
    /\ next_arrival_time = 0
    /\ SetArrivalRate(r)

StatsNext ==
    \/ StatStepArrival
    \/ StatStepDeparture
    \/ GetStatistics
    \/ \E r \in Rates : StatSetArrivalRate(r)

StatsSpec == Init /\ [][StatsNext]_vars

\* ------------------------------------------ a long run and its report
\* The long run of LongSpec read once: the caller steps the engine any
\* number of times up to LongSteps and then calls get_statistics(); the
\* run ends with that call, so the engine state is the one reported on.
ReportStepArrival ==
    /\ ~stats.called
    /\ LongStepArrival

ReportStepDeparture ==
    /\ ~stats.called
    /\ LongStepDeparture

Report ==
    /\ ~stats.called
    /\ GetStatistics

ReportNext ==
    \/ ReportStepArrival
    \/ ReportStepDeparture
    \/ Report

ReportSpec == LongInit /\ [][ReportNext]_vars


\* ---------------------------------------------------- UtilizationOptimizer
\* self.adjustment_rate = 0.01
AdjustmentRate == 10
\* self.measurement_window = 100
MeasurementWindow == 100
\* self.max_arrival_rate = 10.0
MaxArrivalRate == 10000
\* self.min_service_rate = 0.5
MinServiceRate == 500
\* the lower bound 0.1 of _optimize_arrival_rate_only
MinArrivalRate == 100
\* the dead band 0.02 of the three target-driven strategies
DeadBand == 20

\* valid_strategies of set_strategy, in the order of cycle_strategy
Strategies ==
    <<"arrival_rate", "service_rate", "balanced", "demonstrate_instability">>

StrategyNames == {Strategies[i] : i \in 1..Len(Strategies)}

Max(a, b) == IF a >= b THEN a ELSE b

Least(a, b) == IF a <= b THEN a ELSE b

\* one utilization sample server_busy_time / current_time, in thousandths
SampleValue(f) == (f[1] * RateUnit) \div f[2]

RECURSIVE SumSamples(_)
SumSamples(h) ==
    IF h = <<>> THEN 0
    ELSE IF Len(h) = 1 THEN SampleValue(h[1])
    ELSE LET half == Len(h) \div 2
         IN  SumSamples(SubSeq(h, 1, half))
                 + SumSamples(SubSeq(h, half + 1, Len(h)))

\* sum(utilization_history[-measurement_window:]) / measurement_window
RecentUtil(h) ==
    LET n == Len(h)
        from == IF n > MeasurementWindow THEN n - MeasurementWindow + 1 ELSE 1
    IN  SumSamples(SubSeq(h, from, n)) \div MeasurementWindow

\* optimize_step: the two early returns are not taken
GateIgnoringEnabled(enabled, n) == n >= MeasurementWindow

OptimizerGateOpen(enabled, n) == enabled /\ n >= MeasurementWindow

\* _optimize_arrival_rate_only: min(max_arrival_rate, rate + adjustment)
ArrivalRateUpUnbounded(ar) == ar + AdjustmentRate

ArrivalRateUp(ar) == Least(MaxArrivalRate, ar + AdjustmentRate)

\* _optimize_arrival_rate_only: max(0.1, rate - adjustment)
ArrivalRateDown(ar) == Max(MinArrivalRate, ar - AdjustmentRate)

\* _optimize_service_rate_only without the min_service_rate floor
ServiceRateDownUnbounded(ar, sr, target) ==
    LET target_mu == (ar * RateUnit) \div target
    IN  Least(target_mu, sr - AdjustmentRate \div 2)

\* _optimize_service_rate_only: target_mu = arrival_rate / target,
\* max(min_service_rate, min(target_mu, rate - adjustment / 2))
ServiceRateDown(ar, sr, target) ==
    LET target_mu == (ar * RateUnit) \div target
    IN  Max(MinServiceRate, Least(target_mu, sr - AdjustmentRate \div 2))

\* _optimize_balanced raising both rates to the same value
BalancedUpNoBuffer(ar, sr) ==
    IF ar * 1000 < 980 * sr
    THEN [ar |-> ar + AdjustmentRate \div 2, sr |-> ar + AdjustmentRate \div 2]
    ELSE [ar |-> ar + AdjustmentRate \div 10, sr |-> ar + AdjustmentRate \div 10]

\* _optimize_balanced, util_error > 0: with rho < 0.98 arrival_rate +=
\* adjustment / 2 and service_rate = arrival_rate + 0.01, else arrival_rate
\* += adjustment / 10 and service_rate = arrival_rate + 0.005
BalancedUp(ar, sr) ==
    IF ar * 1000 < 980 * sr
    THEN [ar |-> ar + AdjustmentRate \div 2,
          sr |-> ar + AdjustmentRate \div 2 + 10]
    ELSE [ar |-> ar + AdjustmentRate \div 10,
          sr |-> ar + AdjustmentRate \div 10 + 5]

\* _demonstrate_instability: if self.demonstration_phase < 200
IncreasePhaseEnd == 200
\* _demonstrate_instability: elif self.demonstration_phase < 400
DecreasePhaseEnd == 400

\* a phase counter that is never reset
DemoPhaseNeverReset(phase) == phase + 1

\* _demonstrate_instability: the counter after the call; it is incremented
\* first and reset in the else branch
DemoPhase(phase) ==
    IF phase + 1 < DecreasePhaseEnd THEN phase + 1 ELSE 0

\* _demonstrate_instability: the arrival rate after the call, phase being
\* the counter as incremented by the call
DemoArrivalRate(ar, sr, phase) ==
    IF phase < IncreasePhaseEnd
    THEN IF ar * 10 < 12 * sr THEN ar + 5 ELSE ar
    ELSE IF phase < DecreasePhaseEnd
         THEN IF ar * 10 > 8 * sr THEN ar - 10 ELSE ar
         ELSE ar

\* a demonstration that holds still inside the dead band
DemonstrateInstabilityInBand(ar, sr, phase, target, recent) ==
    IF Abs(target - recent) > DeadBand
    THEN [ar |-> DemoArrivalRate(ar, sr, phase + 1), sr |-> sr,
          phase |-> DemoPhase(phase)]
    ELSE [ar |-> ar, sr |-> sr, phase |-> phase]

\* _demonstrate_instability(recent_util, current_rho)
DemonstrateInstability(ar, sr, phase, target, recent) ==
    [ar |-> DemoArrivalRate(ar, sr, phase + 1), sr |-> sr,
     phase |-> DemoPhase(phase)]

\* the rates after one strategy call; util_error = target - recent_util,
\* rho = arrival_rate / service_rate (service_rate > 0)
StrategyResult(strat, ar, sr, phase, target, recent) ==
    LET util_error == target - recent
        outside == Abs(util_error) > DeadBand
        same == [ar |-> ar, sr |-> sr, phase |-> phase]
    IN  CASE strat = "arrival_rate" ->
               IF ~outside THEN same
               ELSE IF util_error > 0
                    THEN [same EXCEPT !.ar = ArrivalRateUp(ar)]
                    ELSE [same EXCEPT !.ar = ArrivalRateDown(ar)]
          [] strat = "service_rate" ->
               IF ~outside THEN same
               ELSE IF util_error > 0
                    THEN [same EXCEPT !.sr = ServiceRateDown(ar, sr, target)]
                    ELSE [same EXCEPT !.sr = sr + AdjustmentRate]
          [] strat = "balanced" ->
               IF ~outside THEN same
               ELSE IF util_error > 0
                    THEN [same EXCEPT !.ar = BalancedUp(ar, sr).ar,
                                      !.sr = BalancedUp(ar, sr).sr]
                    ELSE [same EXCEPT !.sr = sr + AdjustmentRate]
          [] strat = "demonstrate_instability" ->
               DemonstrateInstability(ar, sr, phase, target, recent)
          [] OTHER -> same

\* optimize_step(): one call, counted in ticks
OptimizeCall ==
    /\ raised = "none"
    /\ ticks' = ticks + 1
    /\ IF OptimizerGateOpen(optimization_enabled, Len(utilization_history))
       THEN LET r == StrategyResult(strategy, arrival_rate, service_rate,
                                    demonstration_phase, target_utilization,
                                    RecentUtil(utilization_history))
            IN  /\ arrival_rate' = r.ar
                /\ service_rate' = r.sr
                /\ demonstration_phase' = r.phase
       ELSE UNCHANGED <<arrival_rate, service_rate, demonstration_phase>>
    /\ oplog' = Logged("optimize_step", "", "None")
    /\ UNCHANGED uiVars
    /\ UNCHANGED <<target_utilization, optimization_enabled, strategy>>
    /\ UNCHANGED <<engineVars, raised, stats>>

\* a set_strategy(name) that takes any name
SetStrategyAccepting(name) ==
    /\ raised = "none"
    /\ strategy' = name
    /\ demonstration_phase' = 0
    /\ oplog' = Logged("set_strategy", name, "None")
    /\ UNCHANGED uiVars
    /\ UNCHANGED <<target_utilization, optimization_enabled, ticks>>
    /\ UNCHANGED <<rateVars, engineVars, raised, stats>>

\* set_strategy(name): unknown names are ignored
SetStrategy(name) ==
    /\ raised = "none"
    /\ IF name \in StrategyNames
       THEN /\ strategy' = name
            /\ demonstration_phase' = 0
       ELSE UNCHANGED <<strategy, demonstration_phase>>
    /\ oplog' = Logged("set_strategy", name, "None")
    /\ UNCHANGED uiVars
    /\ UNCHANGED <<target_utilization, optimization_enabled, ticks>>
    /\ UNCHANGED <<rateVars, engineVars, raised, stats>>

\* the value toggle_optimization() returns
NewFlagNegated == IF optimization_enabled THEN "True" ELSE "False"

NewFlag == IF optimization_enabled THEN "False" ELSE "True"

\* toggle_optimization(): return self.optimization_enabled
ToggleOptimization ==
    /\ raised = "none"
    /\ optimization_enabled' = ~optimization_enabled
    /\ oplog' = Logged("toggle_optimization", "", NewFlag)
    /\ UNCHANGED uiVars
    /\ UNCHANGED <<target_utilization, strategy, demonstration_phase, ticks>>
    /\ UNCHANGED <<rateVars, engineVars, raised, stats>>

\* cycle_strategy(): the strategy two places on
NextStrategySkipping ==
    LET current_index == CHOOSE i \in 1..Len(Strategies) :
                             Strategies[i] = strategy
    IN  Strategies[((current_index + 1) % Len(Strategies)) + 1]

\* cycle_strategy(): strategies[(current_index + 1) % len(strategies)]
NextStrategy ==
    LET current_index == CHOOSE i \in 1..Len(Strategies) :
                             Strategies[i] = strategy
        next_index == (current_index % Len(Strategies)) + 1
    IN  Strategies[next_index]

\* cycle_strategy(): return self.strategy
CycleStrategy ==
    /\ raised = "none"
    /\ strategy' = NextStrategy
    /\ demonstration_phase' = 0
    /\ oplog' = Logged("cycle_strategy", "", NextStrategy)
    /\ UNCHANGED uiVars
    /\ UNCHANGED <<target_utilization, optimization_enabled, ticks>>
    /\ UNCHANGED <<rateVars, engineVars, raised, stats>>

\* ------------------------------------------------- a run under control
\* An engine with arrival rate 1.0 and a controller with one of the target
\* utilizations the repository uses (1.0, and 0.95 in test_enhanced.py).
\* The first arrival is drawn from the sample LongSample; later
\* interarrival draws are the longest unit sample and service draws the
\* sample LongSample, so the measured utilization depends on the service
\* rate.  The controller's operations come at any point; the user's rate
\* edits, to values next to the controller's bounds, come once the
\* measurement window is full.
OptSteps == 102
MaxTicks == 2

Targets == {950, RateUnit}

EdgeRates ==
    {MinArrivalRate + AdjustmentRate \div 2,
     MaxArrivalRate - AdjustmentRate \div 2,
     MaxArrivalRate + AdjustmentRate \div 2}

OptInit ==
    /\ \E sr \in Rates : Construct(RateUnit, sr)
    /\ next_arrival_time =
           ScheduleNextArrival(0, Expovariate(RateUnit, LongSample))
    /\ \E t \in Targets : OptimizerInit(t)
    /\ oplog = NoLog
    /\ SimulatorUIInit

OptStepArrival ==
    /\ steps < OptSteps
    /\ ArrivalEvent(MaxExp, LongSample)

OptStepDeparture ==
    /\ steps < OptSteps
    /\ DepartureEvent(LongSample)

OptimizeStep ==
    /\ ticks < MaxTicks
    /\ OptimizeCall

OptSetArrivalRate(r) ==
    /\ Len(utilization_history) >= MeasurementWindow
    /\ SetArrivalRate(r)

OptNext ==
    \/ OptStepArrival
    \/ OptStepDeparture
    \/ OptimizeStep
    \/ ToggleOptimization
    \/ \E name \in StrategyNames \cup {"unknown"} : SetStrategy(name)
    \/ CycleStrategy
    \/ \E r \in EdgeRates : OptSetArrivalRate(r)

OptSpec == OptInit /\ [][OptNext]_vars

\* --------------------------------------------------- a demonstration
\* The engine of the controlled run, stepped until the measurement window
\* is full, and a controller that is enabled and put on the
\* demonstrate_instability strategy before its first call: every call of
\* this run is an active call of that strategy, counted from counter 0.
DemoSteps == 101
DemoTicks == 401

\* the smallest rates the demonstration is started with, 0.005 each
SlowRate == AdjustmentRate \div 2

\* the controlled run's engine, or one whose two rates are SlowRate
DemoInit ==
    \/ OptInit
    \/ /\ Construct(SlowRate, SlowRate)
       /\ next_arrival_time =
              ScheduleNextArrival(0, Expovariate(SlowRate, LongSample))
       /\ OptimizerInit(RateUnit)
       /\ oplog = NoLog
       /\ SimulatorUIInit

DemoStepArrival ==
    /\ steps < DemoSteps
    /\ ArrivalEvent(MaxExp, LongSample)

DemoStepDeparture ==
    /\ steps < DemoSteps
    /\ DepartureEvent(LongSample)

DemoToggle ==
    /\ ticks = 0
    /\ ToggleOptimization

DemoSetStrategy ==
    /\ ticks = 0
    /\ SetStrategy("demonstrate_instability")

DemoTick ==
    /\ ticks < DemoTicks
    /\ strategy = "demonstrate_instability"
    /\ OptimizerGateOpen(optimization_enabled, Len(utilization_history))
    /\ OptimizeCall

DemoNext ==
    \/ DemoStepArrival
    \/ DemoStepDeparture
    \/ DemoToggle
    \/ DemoSetStrategy
    \/ DemoTick

DemoSpec == DemoInit /\ [][DemoNext]_vars

\* ------------------------------------------------- a caller's session
\* An engine with both rates 1.0, stepped until the measurement window is
\* full, and a caller that then makes up to MaxCalls controller calls of
\* any kind, in any order, and keeps what they return.
\* the first step, taken at time 0, records no utilization sample
CtlSteps == MeasurementWindow + 1
MaxCalls == 5

CtlInit ==
    /\ Construct(RateUnit, RateUnit)
    /\ next_arrival_time =
           ScheduleNextArrival(0, Expovariate(RateUnit, LongSample))
    /\ OptimizerInit(RateUnit)
    /\ oplog = EmptyLog
    /\ SimulatorUIInit

CtlReady ==
    /\ Len(utilization_history) >= MeasurementWindow
    /\ Len(oplog.calls) < MaxCalls

CtlStepArrival ==
    /\ steps < CtlSteps
    /\ ArrivalEvent(MaxExp, LongSample)

CtlStepDeparture ==
    /\ steps < CtlSteps
    /\ DepartureEvent(LongSample)

CtlSetStrategy(name) == CtlReady /\ SetStrategy(name)

CtlToggle == CtlReady /\ ToggleOptimization

CtlCycle == CtlReady /\ CycleStrategy

CtlOptimize == CtlReady /\ OptimizeCall

CtlNext ==
    \/ CtlStepArrival
    \/ CtlStepDeparture
    \/ \E name \in StrategyNames \cup {"unknown"} : CtlSetStrategy(name)
    \/ CtlToggle
    \/ CtlCycle
    \/ CtlOptimize

CtlSpec == CtlInit /\ [][CtlNext]_vars

\* ------------------------------------------ construction with any rates
\* MM1Queue(ar, sr) called with positive, zero and negative rates, and the
\* steps the caller can take on whatever the constructor returned.
CtorRates == {0 - RateUnit, 0, RateUnit}

CtorInit ==
    /\ \E ar \in CtorRates, sr \in CtorRates : Construct(ar, sr)
    /\ OptimizerInit(RateUnit)
    /\ oplog = NoLog
    /\ SimulatorUIInit

CtorSpec == CtorInit /\ [][Step]_vars

\* ------------------------------------------------- the program's main loop
\* main() started with both rates, with or without --optimize and
\* --continuous, and left alone: get_user_input() returns None in every
\* pass of "while simulator.running".  A pass calls get_statistics(), draws,
\* reads the keyboard and then, only if neither step mode nor continuous
\* mode is set, calls queue.step() and optimizer.optimize_step().
\* run_continuous_mode() is called from the handler of the 'c' key only.
UiSteps == 102

\* main: MM1Queue(args.arrival_rate, args.service_rate),
\* UtilizationOptimizer(simulator.queue), optimization_enabled = True if
\* --optimize, continuous_mode = True if --continuous, running = True
UiInit ==
    /\ \E sr \in Rates : Construct(RateUnit, sr)
    /\ next_arrival_time =
           ScheduleNextArrival(0, Expovariate(RateUnit, LongSample))
    /\ target_utilization = RateUnit
    /\ optimization_enabled \in BOOLEAN
    /\ strategy = "arrival_rate"
    /\ demonstration_phase = 0
    /\ ticks = 0
    /\ oplog = NoLog
    /\ running = TRUE
    /\ step_mode = FALSE
    /\ continuous_mode \in BOOLEAN

\* "if not simulator.step_mode and not simulator.continuous_mode"
UiAdvances(step, continuous) == ~step /\ ~continuous

\* the optimize_step() of a pass, called on the engine as step() left it
\* (not called if step() raised)
UiOptimizeAfterStep ==
    IF raised' # "none"
    THEN UNCHANGED <<rateVars, optVars, oplog>>
    ELSE /\ ticks' = ticks + 1
         /\ IF OptimizerGateOpen(optimization_enabled,
                                 Len(utilization_history'))
            THEN LET r == StrategyResult(strategy, arrival_rate, service_rate,
                                         demonstration_phase,
                                         target_utilization,
                                         RecentUtil(utilization_history'))
                 IN  /\ arrival_rate' = r.ar
                     /\ service_rate' = r.sr
                     /\ demonstration_phase' = r.phase
            ELSE UNCHANGED <<arrival_rate, service_rate, demonstration_phase>>
         /\ oplog' = Logged("optimize_step", "", "None")
         /\ UNCHANGED <<target_utilization, optimization_enabled, strategy>>

\* a pass of the loop in which step() takes the arrival branch
UiPassArrival ==
    /\ running
    /\ steps < UiSteps
    /\ UiAdvances(step_mode, continuous_mode)
    /\ stats' = Statistics
    /\ ArrivalBranch(MaxExp, LongSample)
    /\ UiOptimizeAfterStep
    /\ UNCHANGED uiVars

\* a pass of the loop in which step() takes the departure branch
UiPassDeparture ==
    /\ running
    /\ steps < UiSteps
    /\ UiAdvances(step_mode, continuous_mode)
    /\ stats' = Statistics
    /\ DepartureBranch(LongSample)
    /\ UiOptimizeAfterStep
    /\ UNCHANGED uiVars

\* a pass of the loop that skips the block at its end
UiPassIdle ==
    /\ running
    /\ ~UiAdvances(step_mode, continuous_mode)
    /\ raised = "none"
    /\ stats' = Statistics
    /\ UNCHANGED <<rateVars, engineVars, raised, optVars, oplog, uiVars>>

UiNext ==
    \/ UiPassArrival
    \/ UiPassDeparture
    \/ UiPassIdle

\* the loop runs for as long as running is set: a pass that can be made
\* is made
UiSpec == UiInit /\ [][UiNext]_vars /\ WF_vars(UiNext)


\* ======================================================================
\* Properties
\* ======================================================================
\* every customer the engine still knows, in the order completed, in
\* service, waiting (the completed log is whole while it was never trimmed)
AllCustomers == completed_customers \o current_customer \o queue

Untrimmed == customers_served <= CompletedCap

\* a step() call happened in this transition
StepTaken == steps' = steps + 1

\* C1: in every reachable state, server_busy is false iff current_customer
\* is None iff next_departure_time is +infinity.
C1_ServerStateAgree ==
    /\ (server_busy = FALSE) <=> (current_customer = <<>>)
    /\ (current_customer = <<>>) <=> (next_departure_time = Inf)

\* C1 witness: the server was busy, served a customer and is idle again.
C1_Witness ==
    /\ customers_served >= 1
    /\ ~server_busy
    /\ current_customer = <<>>
    /\ next_departure_time = Inf

\* C2: the waiting line is FIFO.  Completed customers, the customer in
\* service and the waiting customers, in that order, carry the ids
\* 1, 2, 3, ... without gap, so customers enter service in arrival order,
\* nobody is skipped or reordered; waiting customers have not started
\* service, all others have, and service starts are in id order.
C2_Fifo ==
    Untrimmed =>
        LET all == AllCustomers
            started == completed_customers \o current_customer
        IN  /\ Len(all) = total_customers
            /\ \A i \in 1..Len(all) : all[i].id = i
            /\ \A i \in 1..Len(all) : \A j \in i..Len(all) :
                   all[i].arrival_time <= all[j].arrival_time
            /\ \A i \in 1..Len(queue) : queue[i].start_service_time = NoTime
            /\ \A i \in 1..Len(started) :
                   /\ started[i].start_service_time # NoTime
                   /\ \A j \in i..Len(started) :
                          started[i].start_service_time
                              <= started[j].start_service_time

\* C2 witness: a customer that waited in the line is in service while
\* another one is still waiting behind it.
C2_Witness ==
    /\ customers_served >= 1
    /\ current_customer # <<>>
    /\ current_customer[1].start_service_time > current_customer[1].arrival_time
    /\ Len(queue) >= 1

\* C3: every step() processes exactly one event: exactly one of
\* total_customers and customers_served rises, by exactly 1, and after n
\* steps total_customers + customers_served = n.
C3_OneEventPerStep ==
    /\ [](total_customers + customers_served = steps)
    /\ [][StepTaken =>
            \/ /\ total_customers' = total_customers + 1
               /\ customers_served' = customers_served
            \/ /\ customers_served' = customers_served + 1
               /\ total_customers' = total_customers]_vars

\* C3 witness: several steps were made, of both kinds.
C3_Witness ==
    /\ steps >= 3
    /\ customers_served >= 1
    /\ total_customers >= 2

\* C4: a step() called with next_arrival_time = next_departure_time
\* processes the arrival: the customer in service stays in service and its
\* departure stays scheduled at the (new) current_time; and from a state
\* whose departure is due at current_time, steps leave current_time where
\* it is, so the departure is processed at that same time.
C4_TieArrivalFirst ==
    /\ [][(StepTaken /\ next_arrival_time = next_departure_time) =>
            /\ total_customers' = total_customers + 1
            /\ customers_served' = customers_served
            /\ current_customer' = current_customer
            /\ current_time' = next_arrival_time
            /\ next_departure_time' = current_time']_vars
    /\ [][(StepTaken /\ next_departure_time = current_time) =>
            /\ current_time' = current_time
            /\ \/ customers_served' = customers_served + 1
               \/ next_departure_time' = current_time']_vars

\* C4 witness: a customer arrived at the very time at which an earlier
\* customer departed, and that departure was processed after the arrival.
C4_Witness ==
    /\ customers_served >= 1
    /\ \E i \in 1..Len(completed_customers) : \E j \in 1..Len(AllCustomers) :
          /\ AllCustomers[j].id > completed_customers[i].id
          /\ AllCustomers[j].arrival_time = completed_customers[i].departure_time
          /\ completed_customers[i].service_time > 0

\* C5: current_time never decreases from one step to the next, and both
\* scheduled event times are always at or after current_time.
C5_TimeMonotone ==
    /\ [](next_arrival_time >= current_time /\ next_departure_time >= current_time)
    /\ [][current_time' >= current_time]_vars

\* C5 witness: time has advanced over several events, and service_rate was
\* edited on the way: a customer's service draw of 2 ticks needs rate 1,
\* the rate now is 2.
C5_Witness ==
    /\ steps >= 3
    /\ current_time >= 2
    /\ customers_served >= 1
    /\ completed_customers[1].service_time = 2
    /\ service_rate = 2 * RateUnit

\* C6: every completed customer record, in the completed log or in
\* recent_journeys, has departure_time >= start_service_time >= arrival_time.
Ordered(c) ==
    /\ c.start_service_time # NoTime
    /\ c.departure_time # NoTime
    /\ c.departure_time >= c.start_service_time
    /\ c.start_service_time >= c.arrival_time

C6_TimestampsOrdered ==
    /\ \A i \in 1..Len(completed_customers) : Ordered(completed_customers[i])
    /\ \A i \in 1..Len(recent_journeys) : Ordered(recent_journeys[i])

\* C6 witness: one completed customer was served on arrival, another one
\* waited in the line first.
C6_Witness ==
    /\ \E i \in 1..Len(completed_customers) :
          wait_time(completed_customers[i]) = 0
    /\ \E i \in 1..Len(recent_journeys) :
          /\ wait_time(recent_journeys[i]) > 0
          /\ recent_journeys[i].service_time > 0

\* C7: customers_served never decreases, rises by exactly 1 at each
\* departure event and only then, and equals the number of completed
\* records produced: the length of the completed log while untrimmed.
C7_ServedCountsRecords ==
    /\ [](Untrimmed => customers_served = Len(completed_customers))
    /\ [][customers_served' >= customers_served]_vars
    /\ [][(StepTaken /\ ~NextEventIsArrival(next_arrival_time, next_departure_time))
            <=> customers_served' = customers_served + 1]_vars
    /\ [][customers_served' \in {customers_served, customers_served + 1}]_vars

\* C7 witness: two departures have produced two records.
C7_Witness ==
    /\ customers_served = 2
    /\ Len(completed_customers) = 2

\* C8 as stated: after n step() calls each of the three history buffers
\* holds exactly n entries.
C8_AllHistoriesLengthN ==
    /\ Len(queue_length_history) = steps
    /\ Len(time_history) = steps
    /\ Len(utilization_history) = steps

\* C8 amended: queue_length_history and time_history hold exactly n
\* entries; utilization_history holds one entry per step() call that began
\* with current_time > 0, hence fewer than n entries once n >= 1.
C8_HistoryLengths ==
    /\ Len(queue_length_history) = steps
    /\ Len(time_history) = steps
    /\ Len(utilization_history) =
           Cardinality({i \in 1..Len(time_history) : time_history[i] > 0})
    /\ steps >= 1 => Len(utilization_history) < steps

\* C8 witness: several steps, some utilization samples, fewer than steps.
C8_Witness ==
    /\ steps >= 3
    /\ Len(utilization_history) >= 1
    /\ Len(utilization_history) < Len(time_history)

\* ---- the true integrals, from the customers' own timestamps
Min(a, b) == IF a <= b THEN a ELSE b

RECURSIVE SumSeq(_)
SumSeq(s) == IF s = <<>> THEN 0 ELSE Head(s) + SumSeq(Tail(s))

\* time customer c spent in the system during [0, T]
InSystemUntil(c, T) ==
    LET dep == IF c.departure_time = NoTime THEN Inf ELSE c.departure_time
    IN  Min(dep, T) - Min(c.arrival_time, T)

\* time customer c spent in service during [0, T]
InServiceUntil(c, T) ==
    LET dep == IF c.departure_time = NoTime THEN Inf ELSE c.departure_time
        start == IF c.start_service_time = NoTime THEN Inf ELSE c.start_service_time
    IN  Min(dep, T) - Min(start, T)

\* integral over [0, T] of the number of customers in the system
TrueArea(T) ==
    SumSeq([i \in 1..Len(AllCustomers) |-> InSystemUntil(AllCustomers[i], T)])

\* total time within [0, T] during which a customer was in service
TrueBusy(T) ==
    SumSeq([i \in 1..Len(AllCustomers) |-> InServiceUntil(AllCustomers[i], T)])

\* C9: time_weighted_customers is the time integral of the number in
\* system over the intervals integrated so far (up to
\* last_measurement_time): each interval's length times the number of
\* customers that were in the system during it.
C9_TimeWeightedIsIntegral ==
    Untrimmed => time_weighted_customers = TrueArea(last_measurement_time)

\* C10: server_busy_time is the total length of the integrated intervals
\* (up to last_update_time) during which a customer was in service.
C10_BusyTimeIsBusy ==
    Untrimmed => server_busy_time = TrueBusy(last_update_time)

\* a fraction <<n, d>> with d > 0 lies in [0, 1]
InUnitInterval(f) == f[2] > 0 /\ 0 <= f[1] /\ f[1] <= f[2]

\* C11: in every reachable state avg_utilization is in [0, 1], that is
\* 0 <= server_busy_time <= current_time, every sample stored in
\* utilization_history is in [0, 1], and avg_utilization is 0 when
\* current_time is 0.
C11_UtilizationInUnitInterval ==
    /\ 0 <= server_busy_time
    /\ server_busy_time <= current_time
    /\ InUnitInterval(AvgUtilization)
    /\ \A i \in 1..Len(utilization_history) :
           InUnitInterval(utilization_history[i])
    /\ current_time = 0 => AvgUtilization[1] = 0

\* C11 witness: the history holds a sample equal to 1 and a sample strictly
\* between 0 and 1, and busy time has been accumulated.
C11_Witness ==
    /\ server_busy_time > 0
    /\ \E i \in 1..Len(utilization_history) :
          utilization_history[i][1] = utilization_history[i][2]
    /\ \E i \in 1..Len(utilization_history) :
          /\ 0 < utilization_history[i][1]
          /\ utilization_history[i][1] < utilization_history[i][2]

\* C12 as stated: the value a step() appends to time_history is the time of
\* the event that step processes, the engine's current_time after the step.
C12_HistoryTimeIsNewTime ==
    steps >= 1 => time_history[Len(time_history)] = current_time

\* C12 amended: the value a step() appends to time_history is current_time
\* as it was when the call began (the time of the event processed before),
\* at or before the time of the event the same step processes.
C12_HistoryTimeIsOldTime ==
    /\ [][StepTaken => time_history' = Append(time_history, current_time)]_vars
    /\ [](steps >= 1 =>
            /\ time_history[Len(time_history)] = last_update_time
            /\ time_history[Len(time_history)] <= current_time)

\* C12 witness: the last history entry is earlier than the time of the
\* event the step processed.
C12_Witness ==
    /\ steps >= 2
    /\ Len(time_history) = steps
    /\ time_history[Len(time_history)] < current_time
    /\ time_history[Len(time_history)] > 0

\* C13: after every step the completed log holds at most 1000 records; the
\* departure that would make it 1001 cuts it to exactly the 500 most
\* recently completed customers; the log is always a contiguous suffix, in
\* completion order, of the sequence of all completed customers (customer
\* k is the k-th to complete, by C2).
C13_CompletedLogCapped ==
    /\ [](Len(completed_customers) <= CompletedCap)
    /\ [](\A i \in 1..Len(completed_customers) :
            /\ completed_customers[i].id =
                   customers_served - Len(completed_customers) + i
            /\ completed_customers[i].departure_time # NoTime)
    /\ [][(Len(completed_customers) = CompletedCap
             /\ customers_served' = customers_served + 1)
          => /\ Len(completed_customers') = CompletedKeep
             /\ completed_customers'[CompletedKeep].id = customers_served']_vars
    /\ [][(Len(completed_customers) < CompletedCap
             /\ customers_served' = customers_served + 1)
          => Len(completed_customers') = Len(completed_customers) + 1]_vars

\* C13 witness: the 1001st departure has just cut the log to 500 records.
C13_Witness ==
    /\ customers_served = CompletedCap + 1
    /\ Len(completed_customers) = CompletedKeep
    /\ completed_customers[1].id = CompletedCap + 2 - CompletedKeep

\* C14: recent_journeys never holds more than 5 records and is exactly the
\* last min(5, customers_served) completed customers in completion order.
C14_RecentJourneysLastFive ==
    LET n == Len(recent_journeys)
        m == Len(completed_customers)
    IN  /\ n = Min(RecentMaxlen, customers_served)
        /\ \A i \in 1..n : recent_journeys[i].id = customers_served - n + i
        /\ n <= m
        /\ recent_journeys = SubSeq(completed_customers, m - n + 1, m)

\* C14 witness: more than 5 customers completed, the oldest were evicted.
C14_Witness ==
    /\ customers_served >= RecentMaxlen + 2
    /\ Len(recent_journeys) = RecentMaxlen
    /\ recent_journeys[1].id = customers_served - RecentMaxlen + 1

\* C15: get_statistics() has no side effects: a call, which is the only
\* thing that changes the returned value stats, leaves every engine field,
\* every history buffer, the rates and the controller unchanged, so the
\* steps that follow are the steps of a run that never called it.
C15_GetStatisticsReadOnly ==
    [][stats' # stats => UNCHANGED <<rateVars, engineVars, raised, optVars>>]_vars

\* C15 witness: a snapshot with a Little's Law record and a time breakdown
\* was returned, and the simulation has gone on since.
C15_Witness ==
    /\ stats.called
    /\ stats.little_law.available
    /\ stats.time_breakdown.available
    /\ stats.customers_served < customers_served

\* C16: a hot parameter change touches only the rates: a direct write to
\* arrival_rate or service_rate, and any optimize_step() call, leaves every
\* other engine field unchanged (the clock, the scheduled next arrival and
\* next departure, the waiting line, the customer in service, the counters,
\* sums and histories), so a new rate reaches only the draws of later events.
C16_RateChangeTouchesOnlyRates ==
    [][(rateVars' # rateVars \/ ticks' # ticks)
          => UNCHANGED <<engineVars, raised>>]_vars

\* C16 witness: a direct write put arrival_rate next to the controller's
\* lower bound, a controller call then raised it by one adjustment, and the
\* engine has taken a further step since the measurement window filled.
C16_Witness ==
    /\ ticks >= 1
    /\ arrival_rate = MinArrivalRate + AdjustmentRate \div 2 + AdjustmentRate
    /\ Len(utilization_history) > MeasurementWindow

\* C17: constructing an engine with a non-positive arrival_rate or a
\* non-positive service_rate fails at construction: an error is raised and
\* no engine exists, so no constructed, unstepped engine has such a rate.
C17_NonPositiveRateRejected ==
    (steps = 0 /\ (arrival_rate <= 0 \/ service_rate <= 0))
        => raised # "none"

\* C19: optimize_step() takes no action, under every strategy, while
\* optimization is disabled or utilization_history holds fewer than
\* measurement_window samples: arrival_rate, service_rate, the strategy and
\* the demonstration phase counter are all unchanged by the call.
C19_OptimizeStepGated ==
    [][(/\ ticks' = ticks + 1
        /\ \/ ~optimization_enabled
           \/ Len(utilization_history) < MeasurementWindow)
          => UNCHANGED <<arrival_rate, service_rate, strategy,
                         demonstration_phase>>]_vars

\* C19 witness: the controller was called, it is enabled and runs the
\* strategy that counts its calls, the window is not full yet, and the
\* phase counter and the rates are as constructed.
C19_Witness ==
    /\ ticks >= 1
    /\ optimization_enabled
    /\ strategy = "demonstrate_instability"
    /\ Len(utilization_history) < MeasurementWindow
    /\ Len(utilization_history) > 0
    /\ demonstration_phase = 0
    /\ arrival_rate = RateUnit

\* C20: under the arrival-only strategy a controller call that starts with
\* arrival_rate in [0.1, 10.0] ends with arrival_rate in [0.1, 10.0].
C20_ArrivalRateStaysInBounds ==
    [][(/\ ticks' = ticks + 1
        /\ strategy = "arrival_rate"
        /\ arrival_rate \in MinArrivalRate..MaxArrivalRate)
          => arrival_rate' \in MinArrivalRate..MaxArrivalRate]_vars

\* C20 witness: a call under the arrival-only strategy found the rate half
\* an adjustment below max_arrival_rate and stopped it at max_arrival_rate.
C20_Witness ==
    /\ ticks >= 1
    /\ strategy = "arrival_rate"
    /\ optimization_enabled
    /\ arrival_rate = MaxArrivalRate

\* C21: under the service-only strategy a controller call that starts with
\* service_rate >= 0.5 ends with service_rate >= 0.5.
C21_ServiceRateFloor ==
    [][(/\ ticks' = ticks + 1
        /\ strategy = "service_rate"
        /\ service_rate >= MinServiceRate)
          => service_rate' >= MinServiceRate]_vars

\* C21 witness: a service-only call whose target rate arrival_rate/target
\* lay below the floor stopped service_rate at min_service_rate.
C21_Witness ==
    /\ ticks >= 1
    /\ strategy = "service_rate"
    /\ optimization_enabled
    /\ service_rate = MinServiceRate
    /\ arrival_rate * RateUnit < MinServiceRate * target_utilization

\* C22: under the service-only strategy with target utilization 1.0 a call
\* that starts with service_rate >= arrival_rate/target ends with
\* service_rate >= arrival_rate/target (the rate comes down from above).
C22_ServiceRateStaysAboveTarget ==
    [][(/\ ticks' = ticks + 1
        /\ strategy = "service_rate"
        /\ target_utilization = RateUnit
        /\ service_rate * target_utilization >= arrival_rate * RateUnit)
          => service_rate' * target_utilization >= arrival_rate' * RateUnit]_vars

\* C23: a balanced call whose recent utilization is more than 0.02 below
\* the target raises arrival_rate by 0.005 and sets service_rate to the new
\* arrival_rate + 0.01 when rho < 0.98 before the call, and otherwise raises
\* arrival_rate by 0.001 and sets service_rate to the new arrival_rate +
\* 0.005; either way service_rate > arrival_rate after the call.
C23_BalancedRaise ==
    [][(/\ ticks' = ticks + 1
        /\ strategy = "balanced"
        /\ optimization_enabled
        /\ Len(utilization_history) >= MeasurementWindow
        /\ RecentUtil(utilization_history) < target_utilization - DeadBand)
          => /\ IF 1000 * arrival_rate < 980 * service_rate
                THEN /\ arrival_rate' = arrival_rate + 5
                     /\ service_rate' = arrival_rate' + 10
                ELSE /\ arrival_rate' = arrival_rate + 1
                     /\ service_rate' = arrival_rate' + 5
             /\ service_rate' > arrival_rate']_vars

\* C23 witness: a balanced call found rho well below 0.98 (arrival rate
\* 0.105 against service rate 1.0) and left the rates at 0.110 and 0.120.
C23_Witness ==
    /\ ticks >= 1
    /\ strategy = "balanced"
    /\ optimization_enabled
    /\ arrival_rate = MinArrivalRate + AdjustmentRate
    /\ service_rate = arrival_rate + AdjustmentRate

\* C24 as stated: under demonstrate_instability the counter, incremented
\* once per active call from 0, first returns to 0 on the 600th call.
C24_CycleOfSixHundred ==
    (ticks > 0 /\ demonstration_phase = 0) => ticks >= 600

\* C24 as amended: the counter is incremented once per active call and the
\* demonstration cycles every 400 calls: starting from counter 0, the
\* counter is the number of calls modulo 400, so it first returns to 0 on
\* the 400th call.
C24_CycleOfFourHundred ==
    demonstration_phase = ticks % 400

\* C24 witness: the 401st call has started the second cycle.
C24_Witness ==
    /\ ticks = 401
    /\ demonstration_phase = 1
    /\ strategy = "demonstrate_instability"

\* C25: from counter 0 the first 200 active calls are increase-phase calls
\* (arrival_rate + 0.005 if rho < 1.2, else unchanged) and the following
\* 200 calls are decrease-phase calls (arrival_rate - 0.01 if rho > 0.8,
\* else unchanged).
C25_TwoHundredUpTwoHundredDown ==
    [][ticks' = ticks + 1
          => IF ticks < 200
             THEN arrival_rate' = IF 10 * arrival_rate < 12 * service_rate
                                  THEN arrival_rate + 5 ELSE arrival_rate
             ELSE IF ticks < 400
                  THEN arrival_rate' = IF 10 * arrival_rate > 8 * service_rate
                                       THEN arrival_rate - 10 ELSE arrival_rate
                  ELSE TRUE]_vars

\* utilizations a run may have measured
UtilSamples == {0, RateUnit \div 2, RateUnit - DeadBand, RateUnit}

\* C26: demonstrate_instability ignores the target and the measured
\* utilization: in every state the call's result is the same for every
\* target and every recent utilization, an active call changes
\* arrival_rate by an amount fixed by the counter and rho alone, and it
\* never changes service_rate.
C26_DemoIgnoresSignal ==
    /\ [](\A t \in Targets, r \in UtilSamples :
            StrategyResult("demonstrate_instability", arrival_rate,
                           service_rate, demonstration_phase, t, r)
            = StrategyResult("demonstrate_instability", arrival_rate,
                             service_rate, demonstration_phase,
                             target_utilization, RateUnit))
    /\ [][ticks' = ticks + 1
            => /\ service_rate' = service_rate
               /\ arrival_rate' - arrival_rate =
                    IF demonstration_phase + 1 < 200
                    THEN IF 10 * arrival_rate < 12 * service_rate
                         THEN 5 ELSE 0
                    ELSE IF demonstration_phase + 1 < 400
                         THEN IF 10 * arrival_rate > 8 * service_rate
                              THEN 0 - 10 ELSE 0
                         ELSE 0]_vars

\* C26 witness: with target 1.0 and a measured utilization of 1.0, inside
\* the dead band of the other strategies, the demonstration has raised
\* arrival_rate.
C26_Witness ==
    /\ ticks >= 1
    /\ strategy = "demonstrate_instability"
    /\ target_utilization = RateUnit
    /\ RecentUtil(utilization_history) = RateUnit
    /\ arrival_rate > RateUnit

\* the call a transition records, if it records one
Called(op) ==
    /\ Len(oplog'.calls) = Len(oplog.calls) + 1
    /\ oplog'.calls[Len(oplog'.calls)].op = op

LastCall == oplog.calls[Len(oplog.calls)]

\* C27: set_strategy(name) with a name outside the four valid names is a
\* silent no-op: no error, and strategy, phase counter, enabled flag and
\* rates are unchanged; with a valid name the strategy becomes that name
\* and the phase counter is reset to 0.
C27_SetStrategyValidates ==
    [][Called("set_strategy")
          => LET name == oplog'.calls[Len(oplog'.calls)].arg
             IN  /\ raised' = "none"
                 /\ IF name \in {"arrival_rate", "service_rate", "balanced",
                                  "demonstrate_instability"}
                    THEN strategy' = name /\ demonstration_phase' = 0
                    ELSE UNCHANGED <<strategy, demonstration_phase>>
                 /\ UNCHANGED <<optimization_enabled, arrival_rate,
                                service_rate>>]_vars

\* C27 witness: set_strategy with an unknown name was the last call, made
\* while the demonstration's phase counter was running; the counter and
\* the strategy are as they were.
C27_Witness ==
    /\ Len(oplog.calls) >= 1
    /\ LastCall.op = "set_strategy"
    /\ LastCall.arg = "unknown"
    /\ strategy = "demonstrate_instability"
    /\ demonstration_phase > 0
    /\ optimization_enabled

\* the fixed cyclic order of the strategies
AfterStrategy(name) ==
    CASE name = "arrival_rate" -> "service_rate"
      [] name = "service_rate" -> "balanced"
      [] name = "balanced" -> "demonstrate_instability"
      [] name = "demonstrate_instability" -> "arrival_rate"

\* C28: cycle_strategy() advances in the order arrival-only, service-only,
\* balanced, demonstrate-instability, arrival-only, returns the new name
\* and resets the phase counter; four consecutive calls return to the
\* strategy the first of them started from.
C28_CycleStrategyOrder ==
    /\ [][Called("cycle_strategy")
            => /\ strategy' = AfterStrategy(strategy)
               /\ oplog'.calls[Len(oplog'.calls)].ret = strategy'
               /\ demonstration_phase' = 0]_vars
    /\ [](\A i \in 1..(Len(oplog.calls) - 3) :
            (\A j \in i..(i + 3) : oplog.calls[j].op = "cycle_strategy")
                => oplog.calls[i + 3].ret = oplog.calls[i].strategy)

\* C28 witness: four consecutive cycle_strategy calls, the first made on
\* the balanced strategy that an earlier call had set, have come back to it.
C28_Witness ==
    /\ Len(oplog.calls) >= 5
    /\ \A j \in (Len(oplog.calls) - 3)..Len(oplog.calls) :
           oplog.calls[j].op = "cycle_strategy"
    /\ oplog.calls[Len(oplog.calls) - 3].strategy = "balanced"
    /\ LastCall.ret = "balanced"
    /\ strategy = "balanced"

\* C29: toggle_optimization() flips the enabled flag and returns the new
\* value; strategy, phase counter and rates are unchanged by it; two
\* consecutive calls restore the flag the first of them found.
C29_ToggleFlips ==
    /\ [][Called("toggle_optimization")
            => /\ optimization_enabled' = ~optimization_enabled
               /\ oplog'.calls[Len(oplog'.calls)].ret =
                    (IF optimization_enabled' THEN "True" ELSE "False")
               /\ UNCHANGED <<strategy, demonstration_phase, arrival_rate,
                              service_rate>>]_vars
    /\ [](\A i \in 1..(Len(oplog.calls) - 1) :
            (/\ oplog.calls[i].op = "toggle_optimization"
             /\ oplog.calls[i + 1].op = "toggle_optimization")
                => oplog.calls[i + 1].ret =
                     (IF oplog.calls[i].enabled THEN "True" ELSE "False"))

\* C29 witness: enabled, put on the demonstration, called once, and then
\* toggled off: the flag is off and the counter is still running.
C29_Witness ==
    /\ Len(oplog.calls) >= 2
    /\ LastCall.op = "toggle_optimization"
    /\ LastCall.ret = "False"
    /\ ~optimization_enabled
    /\ demonstration_phase > 0

\* C30: the Little's Law result of get_statistics() is None exactly when
\* customers_served < 10 or current_time <= 0, and a record with a
\* verified flag otherwise; avg_wait_time is 0 at customers_served = 0 and
\* avg_utilization is 0 at current_time = 0, and the call raises nothing.
C30_LittleLawAvailability ==
    stats.called =>
        /\ stats.little_law.available
              <=> ~(stats.customers_served < 10 \/ stats.current_time <= 0)
        /\ stats.little_law.available
              => /\ stats.little_law.verified \in BOOLEAN
                 /\ stats.little_law.L[2] > 0
                 /\ stats.little_law.W[2] > 0
                 /\ stats.little_law.relative_error[2] > 0
        /\ stats.customers_served = 0 => stats.avg_wait_time = <<0, 1>>
        /\ stats.avg_wait_time[2] > 0
        /\ stats.current_time = 0 => stats.avg_utilization = <<0, 1>>
        /\ stats.avg_utilization[2] > 0
        /\ raised = "none"

\* C30 witness: ten customers of a burst were served with the clock still
\* at 0, and get_statistics() returned no Little's Law record.
C30_Witness ==
    /\ stats.called
    /\ stats.customers_served >= 10
    /\ stats.current_time = 0
    /\ ~stats.little_law.available

\* ---------------------------------------------------------------- C31
\* C31: whenever the time breakdown is available, its avg_service_time is
\* the mean service_time of the entries now in the completed log, also
\* after the log has been trimmed.
C31_AvgServiceIsLogMean ==
    (stats.called /\ stats.time_breakdown.available) =>
        LET avg == stats.time_breakdown.avg_service_time
        IN  avg[1] * Len(completed_customers)
                = SumServiceTime(completed_customers) * avg[2]

\* ---------------------------------------------------------------- C32
\* C32: the steady-state classification reported by get_statistics() is
\* determined by customers_served: below 20 Very Low / Not reliable, 20 to
\* 49 Low / Use with caution, 50 to 99 Medium / Moderately reliable, from
\* 100 on High / Reliable; progress is min(served / 100, 1) and
\* is_steady_state holds exactly from 100 served on, exactly when the
\* confidence is High.
C32_SteadyStateClassification ==
    stats.called =>
        LET s == stats.steady_state
            n == customers_served
            class == IF n <= 19 THEN <<"Very Low", "Not reliable">>
                     ELSE IF n <= 49 THEN <<"Low", "Use with caution">>
                     ELSE IF n <= 99 THEN <<"Medium", "Moderately reliable">>
                     ELSE <<"High", "Reliable">>
        IN  /\ s.customers_served = n
            /\ <<s.confidence, s.reliability>> = class
            /\ s.progress[2] > 0
            /\ s.progress[1] * 100 = Least(n, 100) * s.progress[2]
            /\ s.is_steady_state <=> n >= 100
            /\ s.is_steady_state <=> s.confidence = "High"

\* the report taken right at the hundredth departure
C32_Witness ==
    /\ stats.called
    /\ customers_served = 100
    /\ stats.steady_state.confidence = "High"
    /\ stats.steady_state.progress = <<1, 1>>

\* ---------------------------------------------------------------- C36
\* C36: whenever the time breakdown is available, the average time in
\* system is the average wait plus the average service, and the two
\* fractions add up to 1 when the average total is at least 0.001, also
\* in runs long enough for the completed log to have been trimmed.  (The
\* three averages are fractions over the same customers_served.)
C36_SystemTimeIsWaitPlusService ==
    (stats.called /\ stats.time_breakdown.available) =>
        LET tb == stats.time_breakdown
            w == tb.avg_wait_time
            s == tb.avg_service_time
            t == tb.avg_time_in_system
        IN  /\ w[2] = t[2] /\ s[2] = t[2]
            /\ w[1] + s[1] = t[1]
            /\ 1000 * t[1] >= t[2] =>
                   /\ tb.wait_fraction[2] = tb.service_fraction[2]
                   /\ tb.wait_fraction[1] + tb.service_fraction[1]
                          = tb.wait_fraction[2]

\* ---------------------------------------------------------------- C34
\* C34: customer conservation.  In every reachable state the number of
\* customers that have arrived is the number served plus the length of
\* the waiting line plus one if the server is busy.
C34_CustomerConservation ==
    total_customers
        = customers_served + Len(queue) + (IF server_busy THEN 1 ELSE 0)

\* customers in all three places: served, in service and waiting
C34_Witness ==
    /\ customers_served >= 1
    /\ server_busy
    /\ Len(queue) >= 2
    /\ total_customers = customers_served + Len(queue) + 1

\* ---------------------------------------------------------------- C35
\* C35: every record in the completed log has wait_time + service_time =
\* time_in_system, its service_time being departure_time minus
\* start_service_time, whatever rate writes happened while the customer
\* was waiting or in service.
C35_JourneyAddsUp ==
    \A i \in 1..Len(completed_customers) :
        LET c == completed_customers[i]
        IN  /\ c.start_service_time # NoTime
            /\ c.departure_time # NoTime
            /\ c.service_time = c.departure_time - c.start_service_time
            /\ wait_time(c) + c.service_time = time_in_system(c)

\* a completed customer who waited and was served for a time that no draw
\* at the present service rate gives: the rate was written after the
\* service time was drawn
C35_Witness ==
    \E i \in 1..Len(completed_customers) :
        LET c == completed_customers[i]
        IN  /\ wait_time(c) > 0
            /\ c.service_time > 0
            /\ \A e \in UnitExp : Expovariate(service_rate, e) # c.service_time

\* ---------------------------------------------------------------- C37
\* C37: a service-only call whose recent utilization is more than 0.02
\* below the target lowers service_rate by exactly 0.005 unless the floor
\* 0.5 stops it; service_rate changes by at most 0.005 in the call and
\* arrival_rate is unchanged.
C37_ServiceOnlyHalfStep ==
    [][(/\ ticks' = ticks + 1
        /\ strategy = "service_rate"
        /\ optimization_enabled
        /\ Len(utilization_history) >= MeasurementWindow
        /\ RecentUtil(utilization_history) < target_utilization - DeadBand)
          => /\ arrival_rate' = arrival_rate
             /\ service_rate' =
                    Max(MinServiceRate, service_rate - AdjustmentRate \div 2)
             /\ Abs(service_rate' - service_rate) <= AdjustmentRate \div 2]_vars

\* ---------------------------------------------------------------- C38
\* C38 as stated: with target_utilization = 1.0 the above-target branch of
\* the arrival-only, service-only and balanced strategies is never taken:
\* once the window is full the recent utilization is never more than 0.02
\* above the target, so no call lowers arrival_rate under arrival-only,
\* and no call under service-only or balanced adds the fixed step to
\* service_rate (service-only moves service_rate down or onto the floor,
\* balanced changes service_rate only together with arrival_rate).
C38_ArrivalOnlyNeverLowers ==
    /\ []((/\ target_utilization = RateUnit
           /\ Len(utilization_history) >= MeasurementWindow)
             => RecentUtil(utilization_history)
                    <= target_utilization + DeadBand)
    /\ [][(ticks' = ticks + 1 /\ target_utilization = RateUnit)
            => /\ strategy = "arrival_rate"
                    => arrival_rate' >= arrival_rate
               /\ strategy = "service_rate"
                    => service_rate' <= Max(service_rate, MinServiceRate)
               /\ strategy = "balanced"
                    => \/ service_rate' = service_rate
                       \/ arrival_rate' > arrival_rate]_vars

\* C38 as amended: with target_utilization = 1.0 the above-target branch
\* of the three strategies is never taken.  Once the window is full the
\* recent utilization is never more than 0.02 above the target; a change
\* of arrival_rate under arrival-only is the one of the below-target
\* branch, min(max_arrival_rate, arrival_rate + 0.01), which lowers a rate
\* found above 10.0 to 10.0 and lowers no other; service-only and balanced
\* never add the fixed step to service_rate.
C38_NoAboveTargetBranch ==
    /\ []((/\ target_utilization = RateUnit
           /\ Len(utilization_history) >= MeasurementWindow)
             => RecentUtil(utilization_history)
                    <= target_utilization + DeadBand)
    /\ [][(ticks' = ticks + 1 /\ target_utilization = RateUnit)
            => /\ strategy = "arrival_rate"
                    => \/ arrival_rate' = arrival_rate
                       \/ arrival_rate' =
                              Least(MaxArrivalRate, arrival_rate + AdjustmentRate)
               /\ (strategy = "arrival_rate" /\ arrival_rate <= MaxArrivalRate)
                    => arrival_rate' >= arrival_rate
               /\ strategy = "service_rate"
                    => service_rate' <= Max(service_rate, MinServiceRate)
               /\ strategy = "balanced"
                    => \/ service_rate' = service_rate
                       \/ arrival_rate' > arrival_rate]_vars

\* an active arrival-only call made at target 1.0 with the recent
\* utilization below the target has left arrival_rate at max_arrival_rate,
\* the value its below-target branch also lowers a rate above 10.0 to
C38_Witness ==
    /\ ticks >= 1
    /\ target_utilization = RateUnit
    /\ strategy = "arrival_rate"
    /\ optimization_enabled
    /\ Len(utilization_history) >= MeasurementWindow
    /\ RecentUtil(utilization_history) < target_utilization - DeadBand
    /\ arrival_rate = MaxArrivalRate

\* ---------------------------------------------------------------- C39
\* C39: rates stay positive under control: a controller call that starts
\* with arrival_rate > 0 and service_rate > 0 ends with both still
\* positive, under every strategy.
C39_RatesStayPositive ==
    [][(/\ ticks' = ticks + 1
        /\ arrival_rate > 0
        /\ service_rate > 0)
          => (arrival_rate' > 0 /\ service_rate' > 0)]_vars

\* ---------------------------------------------------------------- C33
\* C33: started with both rates and --continuous, and with no key pressed,
\* the simulation advances on its own: queue.step() is eventually executed
\* and keeps being executed (here: up to the UiSteps calls of the run).
C33_ContinuousAdvances ==
    continuous_mode => <>(steps = UiSteps)

====
